---- MODULE Spec2Model ----
(***************************************************************************)
(* Model of package ztls (src/pkg/tlsx/ztls/ztls.go): the TLS grabbing     *)
(* client built by New and its Connect method.                             *)
(*                                                                         *)
(* Go strings that the code slices or searches (hostname, port, address,   *)
(* ServerName) are sequences of one-character strings; version tokens and  *)
(* error messages, which the code only compares or looks up, are TLA+      *)
(* strings.  Durations are counted in whole seconds.  Every Go value that  *)
(* may be nil (error, *Response, *Client, *x509.Certificate) is a record   *)
(* with a "type" field, nil being [type |-> "nil"].                        *)
(***************************************************************************)
EXTENDS Integers, Sequences, FiniteSets, TLC

VARIABLES
    opts,        \* the *clients.Options handed to New
    client,      \* the *Client New returned
    newErr,      \* the error New returned
    now,         \* wall clock, in seconds
    pc,          \* per Connect call: where the caller is
    args,        \* per call: hostname, port and what the network does with the address
    t0,          \* per call: the time Connect was entered
    timer,       \* per call: the time.AfterFunc timer: "none", "pending", "fired"
    errChannel,  \* per call: the buffered channel's contents (NoChan when nil)
    sent,        \* per call: every value ever sent on errChannel, in order (history)
    reads,       \* per call: number of receives the caller has done (history)
    conn,        \* per call: the dialed net.Conn: "none", "open", "closed"
    config,      \* per call: the local variable config (lines 105-110)
    tlsConn,     \* per call: the tls.Conn: its config, the handshake task, the log
    err,         \* per call: the local variable err after line 120
    result       \* per call: what Connect returned: [resp, err]

vars == <<opts, client, newErr, now, pc, args, t0, timer, errChannel, sent,
          reads, conn, config, tlsConn, err, result>>

callVars == <<pc, args, t0, timer, errChannel, sent, reads, conn, config,
              tlsConn, err, result>>

----------------------------------------------------------------------------
(* Bounds of the model *)

\* Largest options.Timeout (seconds) tried.
MaxTimeout == 1

\* The clock stops advancing here.
MaxNow == 2

\* Connect calls that may run concurrently on the one Client.
Calls == {1, 2}

----------------------------------------------------------------------------
(* Values *)

Nil == [type |-> "nil"]

\* tls.VersionSSL30 .. tls.VersionTLS12
VersionSSL30 == 768
VersionTLS10 == 769
VersionTLS11 == 770
VersionTLS12 == 771
\* a ServerHello version the tables do not hold (TLS 1.3)
VersionUnknown == VersionTLS12 + 1

\* versionStringToTLSVersion converts tls version string to version
versionStringToTLSVersion ==
    [t \in {"ssl30", "tls10", "tls11", "tls12"} |->
        CASE t = "ssl30" -> VersionSSL30
          [] t = "tls10" -> VersionTLS10
          [] t = "tls11" -> VersionTLS11
          [] t = "tls12" -> VersionTLS12]

\* Mutant of versionToTLSVersionString: two tokens of the table are exchanged.
versionToTLSVersionStringExchanged ==
    [v \in {VersionSSL30, VersionTLS10, VersionTLS11, VersionTLS12} |->
        CASE v = VersionSSL30 -> "ssl30"
          [] v = VersionTLS10 -> "tls10"
          [] v = VersionTLS11 -> "tls12"
          [] v = VersionTLS12 -> "tls11"]

\* versionToTLSVersionString converts tls version to version string
versionToTLSVersionString ==
    [v \in {VersionSSL30, VersionTLS10, VersionTLS11, VersionTLS12} |->
        CASE v = VersionSSL30 -> "ssl30"
          [] v = VersionTLS10 -> "tls10"
          [] v = VersionTLS11 -> "tls11"
          [] v = VersionTLS12 -> "tls12"]

\* Mutant of VersionString: an absent version reads as the newest known one.
VersionStringDefaulting(v) ==
    IF v \in DOMAIN versionToTLSVersionString THEN versionToTLSVersionString[v] ELSE "tls12"

\* Go's map index m[k]: the zero value when k is absent.
VersionString(v) ==
    IF v \in DOMAIN versionToTLSVersionString THEN versionToTLSVersionString[v] ELSE ""

\* fmt.Errorf(format, token)
Errorf(format, token) == [type |-> "errorf", format |-> format, arg |-> token]

\* Mutant of BaseConfig: the negation of line 49 is lost.
BaseConfigVerifyFlipped(options) ==
    [CertsOnly          |-> options.CertsOnly,
     MinVersion         |-> VersionSSL30,
     MaxVersion         |-> VersionTLS12,
     InsecureSkipVerify |-> options.VerifyServerCertificate,
     ServerName         |-> <<>>]

\* The tls.Config literal of New, lines 45-50; ServerName has its zero value.
BaseConfig(options) ==
    [CertsOnly          |-> options.CertsOnly,
     MinVersion         |-> VersionSSL30,
     MaxVersion         |-> VersionTLS12,
     InsecureSkipVerify |-> ~options.VerifyServerCertificate,
     ServerName         |-> <<>>]

\* Lines 52-54.
WithServerName(cfg, options) ==
    IF options.ServerName # <<>> THEN [cfg EXCEPT !.ServerName = options.ServerName]
    ELSE cfg

\* Mutant of New: an unknown maxVersion token is ignored instead of rejected.
NewIgnoringBadMax(options) ==
    LET c0 == WithServerName(BaseConfig(options), options)
        d  == [Timeout |-> options.Timeout]
    IN  IF options.MinVersion # "" /\ options.MinVersion \notin DOMAIN versionStringToTLSVersion
        THEN [client |-> Nil,
              err |-> Errorf("invalid min version specified: %s", options.MinVersion)]
        ELSE LET c1 == IF options.MinVersion # ""
                       THEN [c0 EXCEPT !.MinVersion = versionStringToTLSVersion[options.MinVersion]]
                       ELSE c0
                 c2 == IF options.MaxVersion \in DOMAIN versionStringToTLSVersion
                       THEN [c1 EXCEPT !.MaxVersion = versionStringToTLSVersion[options.MaxVersion]]
                       ELSE c1
             IN  [client |-> [type |-> "client", dialer |-> d, tlsConfig |-> c2], err |-> Nil]

\* New creates a new grabbing client: [client, err].
New(options) ==
    LET c0 == WithServerName(BaseConfig(options), options)
        d  == [Timeout |-> options.Timeout]
    IN  IF options.MinVersion # "" /\ options.MinVersion \notin DOMAIN versionStringToTLSVersion
        THEN [client |-> Nil,
              err |-> Errorf("invalid min version specified: %s", options.MinVersion)]
        ELSE LET c1 == IF options.MinVersion # ""
                       THEN [c0 EXCEPT !.MinVersion = versionStringToTLSVersion[options.MinVersion]]
                       ELSE c0
             IN  IF options.MaxVersion # "" /\ options.MaxVersion \notin DOMAIN versionStringToTLSVersion
                 THEN [client |-> Nil,
                       err |-> Errorf("invalid max version specified: %s", options.MaxVersion)]
                 ELSE LET c2 == IF options.MaxVersion # ""
                                THEN [c1 EXCEPT !.MaxVersion = versionStringToTLSVersion[options.MaxVersion]]
                                ELSE c1
                      IN  [client |-> [type |-> "client", dialer |-> d, tlsConfig |-> c2],
                           err |-> Nil]

----------------------------------------------------------------------------
(* Strings *)

Contains(s, ch) == \E k \in 1..Len(s) : s[k] = ch

\* net.JoinHostPort: a host holding a colon is bracketed.
JoinHostPort(hostname, port) ==
    IF Contains(hostname, ":") THEN <<"[">> \o hostname \o <<"]", ":">> \o port
    ELSE hostname \o <<":">> \o port

\* strings.LastIndex for a one-byte separator: 0-based, -1 when absent.
LastIndex(s, ch) ==
    IF Contains(s, ch)
    THEN (CHOOSE k \in 1..Len(s) : s[k] = ch /\ \A m \in (k+1)..Len(s) : s[m] # ch) - 1
    ELSE -1

\* Lines 99-103: address[:colonPos].
hostnameValue(address) ==
    LET found    == LastIndex(address, ":")
        colonPos == IF found = -1 THEN Len(address) ELSE found
    IN  SubSeq(address, 1, colonPos)

----------------------------------------------------------------------------
(* Errors *)

\* type timeoutError struct{}, lines 74-78, with its three methods.
timeoutError ==
    [type      |-> "timeoutError",
     Error     |-> "tls: DialWithDialer timed out",
     Timeout   |-> TRUE,
     Temporary |-> TRUE]

\* tls.ErrCertsOnly, the handshake engine's sentinel.
ErrCertsOnly == [type |-> "engine", Error |-> "ErrCertsOnly"]

\* Any other error of the handshake engine.
ErrAlert == [type |-> "engine", Error |-> "alert"]

\* The engine's error when its connection was closed under it.
ErrClosed == [type |-> "engine", Error |-> "use of closed network connection"]

\* What net.Dialer.Dial fails with.
ErrRefused     == [type |-> "net.OpError", Error |-> "connection refused", Timeout |-> FALSE]
ErrDialTimeout == [type |-> "net.OpError", Error |-> "i/o timeout", Timeout |-> TRUE]

\* errors.Wrap(cause, message) of github.com/pkg/errors: a new error value that
\* keeps the cause; it has the methods Error, Cause, Unwrap and Format only.
Wrap(cause, message) == [type |-> "wrapped", message |-> message, cause |-> cause]

\* err.(interface{ Timeout() bool }) succeeds and the marker is true.
IsTimeout(e) == "Timeout" \in DOMAIN e /\ e.Timeout

\* err.(interface{ Temporary() bool }) succeeds and the marker is true.
IsTemporary(e) == "Temporary" \in DOMAIN e /\ e.Temporary

----------------------------------------------------------------------------
(* Certificates and the handshake log *)

\* Raw certificates a server may present; "junk" does not decode.
RawCerts == {"derA", "derB", "junk"}

NoStrings == <<>>

\* x509.ParseCertificate: the decoded certificate, or nil with an error.
ParseCertificate(raw) ==
    CASE raw = "derA" ->
            [type |-> "x509", DNSNames |-> <<"a.example">>, EmailAddresses |-> <<"m@a">>,
             Issuer  |-> [CommonName |-> "CA", Organization |-> <<"CA Org">>],
             Subject |-> [CommonName |-> "a.example", Organization |-> <<"A Org">>]]
      [] raw = "derB" ->
            [type |-> "x509", DNSNames |-> NoStrings, EmailAddresses |-> NoStrings,
             Issuer  |-> [CommonName |-> "Root", Organization |-> <<"Root Org">>],
             Subject |-> [CommonName |-> "CA", Organization |-> <<"CA Org">>]]
      [] OTHER -> Nil

\* Lines 143-146: the decoder's error is dropped.
parseSimpleTLSCertificate(cert) == ParseCertificate(cert.Raw)

\* clients.CertificateResponse{}
ZeroCertificateResponse ==
    [DNSNames |-> NoStrings, Emails |-> NoStrings, IssuerCommonName |-> "",
     IssuerOrganization |-> NoStrings, SubjectCommonName |-> "",
     SubjectOrganization |-> NoStrings]

\* Lines 148-160.
convertCertificateToResponse(cert) ==
    IF cert = Nil THEN ZeroCertificateResponse
    ELSE [DNSNames            |-> cert.DNSNames,
          Emails              |-> cert.EmailAddresses,
          IssuerCommonName    |-> cert.Issuer.CommonName,
          IssuerOrganization  |-> cert.Issuer.Organization,
          SubjectCommonName   |-> cert.Subject.CommonName,
          SubjectOrganization |-> cert.Subject.Organization]

SimpleCertificate(raw) == [Raw |-> raw]

HandshakeLog(version, leaf, chain) ==
    [ServerHello        |-> [Version |-> version],
     ServerCertificates |-> [Certificate |-> SimpleCertificate(leaf),
                             Chain       |-> [k \in 1..Len(chain) |-> SimpleCertificate(chain[k])]]]

\* tlsConn.GetHandshakeLog() after a handshake that got the certificates:
\* ServerHello version, leaf, and the chain in the server's order.
Logs ==
    {HandshakeLog(VersionTLS12, "derA", <<"derB">>),
     HandshakeLog(VersionUnknown, "derA", <<>>),
     HandshakeLog(VersionTLS10, "junk", <<"junk", "derB">>)}

\* The log of a handshake that failed; Connect does not read it.
NoLog == [type |-> "nil"]

----------------------------------------------------------------------------
(* Pieces of Connect *)

\* Mutant of ChanCap: room for one value only.
ChanCapOneShort == 2 - 1

\* make(chan error, 2), line 87
ChanCap == 2

\* errChannel while it is the nil channel of line 85.
NoChan == <<[type |-> "nochan"]>>

\* Mutant of NeedsTimer: the timer is armed whatever the timeout.
NeedsTimerAlways(timeout) == TRUE

\* Line 86: the channel and the timer exist only for a nonzero timeout.
NeedsTimer(timeout) == timeout # 0

\* Mutant of TimerDeadline / DialDeadline: the deadline is the start itself.
DeadlineAtStart(start, timeout) == start

\* Line 88: time.AfterFunc(timeout, ...) runs its function once timeout has elapsed.
TimerDeadline(start, timeout) == start + timeout

\* Lines 42-44 and 93: the dialer gives up once dialer.Timeout has elapsed.
DialDeadline(start, timeout) == start + timeout

\* Mutant of Recv: the newest value is taken instead of the oldest.
RecvNewest(ch) == [val |-> ch[Len(ch)], rest |-> SubSeq(ch, 1, Len(ch) - 1)]

\* Line 119: a receive takes the oldest value of the buffered channel.
Recv(ch) == [val |-> Head(ch), rest |-> Tail(ch)]

\* Mutant of DialFailed: the failure is reported as a handshake failure.
DialFailedAsHandshake(cause) ==
    [resp |-> Nil, err |-> Wrap(cause, "could not do tls handshake")]

\* Lines 94-96.
DialFailed(cause) == [resp |-> Nil, err |-> Wrap(cause, "could not connect to address")]

\* Lines 105-110: the local variable config; a copy when no name is fixed.
LocalConfig(cl, address) ==
    IF cl.tlsConfig.ServerName = <<>>
    THEN [cl.tlsConfig EXCEPT !.ServerName = hostnameValue(address)]
    ELSE cl.tlsConfig

\* Mutant of ClientAfterConnect: line 108 assigns through the pointer, not a copy.
ClientAfterConnectInPlace(cl, address) ==
    IF cl.tlsConfig.ServerName = <<>>
    THEN [cl EXCEPT !.tlsConfig.ServerName = hostnameValue(address)]
    ELSE cl

\* Lines 105-110: c := *config copies, so the Client is left as it was.
ClientAfterConnect(cl, address) == cl

\* Line 112: the config handed to tls.Client is c.tlsConfig.
HandshakeConfig(cl, localConfig) == cl.tlsConfig

\* Mutant of SuppressCertsOnly: the sentinel is not special-cased.
KeepCertsOnly(e) == e

\* Lines 121-123.
SuppressCertsOnly(e) == IF e = ErrCertsOnly THEN Nil ELSE e

\* Mutant of HandshakeFailed: the cause is returned as it is.
HandshakeFailedBare(e) == [resp |-> Nil, err |-> e]

\* Lines 124-126.
HandshakeFailed(e) == [resp |-> Nil, err |-> Wrap(e, "could not do tls handshake")]

\* Mutant of ChainOf: certificates that do not decode are left out.
RECURSIVE ChainOfSkippingBad(_)
ChainOfSkippingBad(certs) ==
    IF certs = <<>> THEN <<>>
    ELSE (IF parseSimpleTLSCertificate(Head(certs)) = Nil THEN <<>>
          ELSE <<convertCertificateToResponse(parseSimpleTLSCertificate(Head(certs)))>>)
         \o ChainOfSkippingBad(Tail(certs))

\* Lines 129-139, element by element (the range loop appends in order).
RECURSIVE ChainOf(_)
ChainOf(certs) ==
    IF certs = <<>> THEN <<>>
    ELSE <<convertCertificateToResponse(parseSimpleTLSCertificate(Head(certs)))>>
         \o ChainOf(Tail(certs))

\* x509.ParseCertificate's error for bytes that do not decode.
ErrParse == [type |-> "x509", Error |-> "malformed certificate"]

\* Mutant of Respond: a leaf that does not decode fails the call.
RespondStrict(hostname, port, hl) ==
    IF parseSimpleTLSCertificate(hl.ServerCertificates.Certificate) = Nil
    THEN [resp |-> Nil, err |-> Wrap(ErrParse, "could not parse certificate")]
    ELSE [resp |-> [type          |-> "response",
                    Host          |-> hostname,
                    Port          |-> port,
                    Version       |-> VersionString(hl.ServerHello.Version),
                    TLSConnection |-> "ztls",
                    Leaf          |-> convertCertificateToResponse(
                                         parseSimpleTLSCertificate(hl.ServerCertificates.Certificate)),
                    Chain         |-> ChainOf(hl.ServerCertificates.Chain)],
          err |-> Nil]

\* Mutant of Respond: Host is the dialed address instead of the hostname.
RespondWithAddress(hostname, port, hl) ==
    [resp |-> [type          |-> "response",
               Host          |-> JoinHostPort(hostname, port),
               Port          |-> port,
               Version       |-> VersionString(hl.ServerHello.Version),
               TLSConnection |-> "ztls",
               Leaf          |-> convertCertificateToResponse(
                                    parseSimpleTLSCertificate(hl.ServerCertificates.Certificate)),
               Chain         |-> ChainOf(hl.ServerCertificates.Chain)],
     err |-> Nil]

\* Lines 127-140.
Respond(hostname, port, hl) ==
    [resp |-> [type          |-> "response",
               Host          |-> hostname,
               Port          |-> port,
               Version       |-> VersionString(hl.ServerHello.Version),
               TLSConnection |-> "ztls",
               Leaf          |-> convertCertificateToResponse(
                                    parseSimpleTLSCertificate(hl.ServerCertificates.Certificate)),
               Chain         |-> ChainOf(hl.ServerCertificates.Chain)],
     err |-> Nil]

\* Lines 121-140: from the handshake's error to Connect's return values.
Outcome(e, hostname, port, hl) ==
    IF SuppressCertsOnly(e) # Nil THEN HandshakeFailed(SuppressCertsOnly(e))
    ELSE Respond(hostname, port, hl)

\* Mutant of DeferredClose: the connection is left open.
DeferredCloseSkipped(c) == c

\* Line 97: defer conn.Close() runs on every return after the dial.
DeferredClose(c) == "closed"

\* What tlsConn.Handshake() may return, given its config and connection.
HandshakeResults(cfg, c) ==
    {Nil, ErrAlert}
    \cup (IF cfg.CertsOnly THEN {ErrCertsOnly} ELSE {})
    \cup (IF c = "closed" THEN {ErrClosed} ELSE {})

\* The handshake log that goes with a result of Handshake().
LogsFor(e) == IF e \in {Nil, ErrCertsOnly} THEN Logs ELSE {NoLog}

----------------------------------------------------------------------------
(* Inputs *)

Tokens == {"", "ssl30", "tls10", "tls11", "tls12", "tls13", "bogus"}

ServerNames == {<<>>, <<"s", "n", "i">>}

Options(timeouts, tokens, verify) ==
    [Timeout                 : timeouts,
     ServerName              : ServerNames,
     MinVersion              : tokens,
     MaxVersion              : tokens,
     CertsOnly               : BOOLEAN,
     VerifyServerCertificate : verify]

\* Every Options value New is tried on.
AllOptions == Options(0..MaxTimeout, Tokens, BOOLEAN)

\* The Options of the Clients that Connect is run on.
ConnectOptions == Options(0..MaxTimeout, {""}, {FALSE})

Hostnames == {<<"h">>, <<":", ":", "1">>}

Ports == {<<"4", "4", "3">>}

\* What the network does with a dial to the address.
Nets == {"up", "refusing", "unroutable"}

Address(i) == JoinHostPort(args[i].hostname, args[i].port)

Timeout == client.dialer.Timeout

----------------------------------------------------------------------------
(* New *)

NoArgs == [hostname |-> <<>>, port |-> <<>>, net |-> "none"]

NoTLSConn == [hs |-> "none", config |-> Nil, hl |-> NoLog]

NoResult == [resp |-> Nil, err |-> Nil]

InitCalls ==
    /\ now = 0
    /\ pc = [i \in Calls |-> "idle"]
    /\ args = [i \in Calls |-> NoArgs]
    /\ t0 = [i \in Calls |-> 0]
    /\ timer = [i \in Calls |-> "none"]
    /\ errChannel = [i \in Calls |-> NoChan]
    /\ sent = [i \in Calls |-> <<>>]
    /\ reads = [i \in Calls |-> 0]
    /\ conn = [i \in Calls |-> "none"]
    /\ config = [i \in Calls |-> Nil]
    /\ tlsConn = [i \in Calls |-> NoTLSConn]
    /\ err = [i \in Calls |-> Nil]
    /\ result = [i \in Calls |-> NoResult]

\* client and newErr before New has returned.
Unset == [type |-> "unset"]

\* Before New: the caller holds the Options.
InitNew ==
    /\ opts \in AllOptions
    /\ client = Unset
    /\ newErr = Unset
    /\ InitCalls

\* c, err := New(options)
NewCall ==
    /\ client = Unset /\ newErr = Unset
    /\ client' = New(opts).client
    /\ newErr' = New(opts).err
    /\ UNCHANGED <<opts, now, callVars>>

SpecNew == InitNew /\ [][NewCall]_vars

----------------------------------------------------------------------------
(* Connect *)

\* After construction: a Client that New returned.
Init ==
    /\ opts \in ConnectOptions
    /\ client = New(opts).client
    /\ newErr = New(opts).err
    /\ InitCalls

\* Lines 82-93: the address, the channel and the timer, then the dial begins.
ConnectStart(i, hostname, port, net) ==
    /\ pc[i] = "idle"
    /\ client # Nil
    /\ pc' = [pc EXCEPT ![i] = "dialing"]
    /\ args' = [args EXCEPT ![i] = [hostname |-> hostname, port |-> port, net |-> net]]
    /\ t0' = [t0 EXCEPT ![i] = now]
    /\ IF NeedsTimer(Timeout)
       THEN /\ errChannel' = [errChannel EXCEPT ![i] = <<>>]
            /\ timer' = [timer EXCEPT ![i] = "pending"]
       ELSE UNCHANGED <<errChannel, timer>>
    /\ UNCHANGED <<opts, client, newErr, now, sent, reads, conn, config, tlsConn, err, result>>

\* Lines 88-90: the timer's function runs and sends timeoutError{}.
TimerFire(i) ==
    /\ timer[i] = "pending"
    /\ now >= TimerDeadline(t0[i], Timeout)
    /\ Len(errChannel[i]) < ChanCap
    /\ errChannel' = [errChannel EXCEPT ![i] = Append(@, timeoutError)]
    /\ sent' = [sent EXCEPT ![i] = Append(@, timeoutError)]
    /\ timer' = [timer EXCEPT ![i] = "fired"]
    /\ UNCHANGED <<opts, client, newErr, now, pc, args, t0, reads, conn, config, tlsConn,
                   err, result>>

\* Lines 93-96: the dial fails; Connect returns.
DialFail(i, cause) ==
    /\ pc[i] = "dialing"
    /\ \/ /\ cause = ErrRefused
          /\ args[i].net = "refusing"
          /\ Timeout = 0 \/ now <= DialDeadline(t0[i], Timeout)
       \/ /\ cause = ErrDialTimeout
          /\ \/ Timeout # 0 /\ now >= DialDeadline(t0[i], Timeout)
             \/ Timeout = 0 /\ args[i].net = "unroutable"
    /\ result' = [result EXCEPT ![i] = DialFailed(cause)]
    /\ pc' = [pc EXCEPT ![i] = "done"]
    /\ UNCHANGED <<opts, client, newErr, now, args, t0, timer, errChannel, sent, reads, conn,
                   config, tlsConn, err>>

\* Lines 93-119: the dial succeeds; config, tls.Client, and the handshake is
\* begun, by the caller (timeout 0) or by a new task the caller then waits for.
DialSucceed(i) ==
    /\ pc[i] = "dialing"
    /\ args[i].net = "up"
    /\ Timeout = 0 \/ now <= DialDeadline(t0[i], Timeout)
    /\ conn' = [conn EXCEPT ![i] = "open"]
    /\ config' = [config EXCEPT ![i] = LocalConfig(client, Address(i))]
    /\ client' = ClientAfterConnect(client, Address(i))
    /\ tlsConn' = [tlsConn EXCEPT ![i] =
                      [hs     |-> IF Timeout = 0 THEN "caller" ELSE "task",
                       config |-> HandshakeConfig(client', config'[i]),
                       hl     |-> NoLog]]
    /\ pc' = [pc EXCEPT ![i] = IF Timeout = 0 THEN "handshake" ELSE "recv"]
    /\ UNCHANGED <<opts, newErr, now, args, t0, timer, errChannel, sent, reads, err, result>>

\* Lines 114 and 121-140: the caller's own handshake returns; Connect returns.
HandshakeSync(i, e, hl) ==
    /\ pc[i] = "handshake"
    /\ e \in HandshakeResults(tlsConn[i].config, conn[i])
    /\ hl \in LogsFor(e)
    /\ tlsConn' = [tlsConn EXCEPT ![i].hs = "returned", ![i].hl = hl]
    /\ err' = [err EXCEPT ![i] = e]
    /\ result' = [result EXCEPT ![i] = Outcome(e, args[i].hostname, args[i].port, hl)]
    /\ conn' = [conn EXCEPT ![i] = DeferredClose(@)]
    /\ pc' = [pc EXCEPT ![i] = "done"]
    /\ UNCHANGED <<opts, client, newErr, now, args, t0, timer, errChannel, sent, reads, config>>

\* Lines 116-118: the task's handshake returns and the task sends its error.
HandshakeTask(i, e, hl) ==
    /\ tlsConn[i].hs = "task"
    /\ e \in HandshakeResults(tlsConn[i].config, conn[i])
    /\ hl \in LogsFor(e)
    /\ Len(errChannel[i]) < ChanCap
    /\ errChannel' = [errChannel EXCEPT ![i] = Append(@, e)]
    /\ sent' = [sent EXCEPT ![i] = Append(@, e)]
    /\ tlsConn' = [tlsConn EXCEPT ![i].hs = "returned", ![i].hl = hl]
    /\ UNCHANGED <<opts, client, newErr, now, pc, args, t0, timer, reads, conn, config, err,
                   result>>

\* Lines 119-140: the caller receives one value; Connect returns.
Receive(i) ==
    /\ pc[i] = "recv"
    /\ errChannel[i] # <<>>
    /\ LET m == Recv(errChannel[i])
       IN  /\ err' = [err EXCEPT ![i] = m.val]
           /\ errChannel' = [errChannel EXCEPT ![i] = m.rest]
           /\ result' = [result EXCEPT ![i] =
                            Outcome(m.val, args[i].hostname, args[i].port, tlsConn[i].hl)]
    /\ reads' = [reads EXCEPT ![i] = @ + 1]
    /\ conn' = [conn EXCEPT ![i] = DeferredClose(@)]
    /\ pc' = [pc EXCEPT ![i] = "done"]
    /\ UNCHANGED <<opts, client, newErr, now, args, t0, timer, sent, config, tlsConn>>

\* A second passes.
Tick ==
    /\ now < MaxNow
    /\ now' = now + 1
    /\ UNCHANGED <<opts, client, newErr, callVars>>

Next ==
    \/ \E i \in Calls, h \in Hostnames, p \in Ports, n \in Nets : ConnectStart(i, h, p, n)
    \/ \E i \in Calls : TimerFire(i)
    \/ \E i \in Calls, cause \in {ErrRefused, ErrDialTimeout} : DialFail(i, cause)
    \/ \E i \in Calls : DialSucceed(i)
    \/ \E i \in Calls, e \in {Nil, ErrAlert, ErrCertsOnly, ErrClosed}, hl \in Logs \cup {NoLog} :
          HandshakeSync(i, e, hl)
    \/ \E i \in Calls, e \in {Nil, ErrAlert, ErrCertsOnly, ErrClosed}, hl \in Logs \cup {NoLog} :
          HandshakeTask(i, e, hl)
    \/ \E i \in Calls : Receive(i)
    \/ Tick

Spec == Init /\ [][Next]_vars

----------------------------------------------------------------------------
(* Vocabulary of the properties *)

\* Connect has returned in call i.
Returned(i) == pc[i] = "done"

\* The dial of call i succeeded: a connection was handed to Connect.
Dialed(i) == conn[i] # "none"

\* Call i ran the race of lines 116-119.
Raced(i) == Timeout # 0 /\ Dialed(i)

\* The spec's error kinds, as the values Connect returns.
IsTimeoutError(e) == IsTimeout(e) /\ IsTemporary(e) /\ e.type = "timeoutError"
IsConnectionError(e) == e.type = "wrapped" /\ e.message = "could not connect to address"
IsHandshakeError(e) == e.type = "wrapped" /\ e.message = "could not do tls handshake"

ValidTokens == {"ssl30", "tls10", "tls11", "tls12"}

----------------------------------------------------------------------------
(* C1 *)

C1_State ==
    \A i \in Calls :
        /\ reads[i] <= 1
        /\ Raced(i) /\ Returned(i) =>
              /\ reads[i] = 1
              /\ sent[i] # <<>>
              /\ err[i] = sent[i][1]
              /\ result[i] = Outcome(sent[i][1], args[i].hostname, args[i].port, tlsConn[i].hl)
              /\ Len(sent[i]) = 2 => errChannel[i] = <<sent[i][2]>>

C1_Step ==
    \A i \in Calls :
        Returned(i) => /\ Returned(i)'
                       /\ result'[i] = result[i]
                       /\ reads'[i] = reads[i]
                       /\ err'[i] = err[i]

\* C1: in a Connect call with a nonzero timeout that runs the race, the caller
\* receives exactly one value, the one sent first (the handshake's error or
\* timeoutError), and what Connect returns is computed from that value; a value
\* sent later stays in the channel, is never received, and leaves the returned
\* outcome as it was.
C1_FirstWriteDecides == []C1_State /\ [][C1_Step]_vars

\* The timer won, Connect returned, and the handshake's later send sits unread.
C1_Witness ==
    \E i \in Calls :
        /\ Raced(i) /\ Returned(i)
        /\ sent[i] = <<timeoutError, Nil>>
        /\ errChannel[i] = <<Nil>>
        /\ IsHandshakeError(result[i].err)

----------------------------------------------------------------------------
(* C2 *)

\* The timer's send came before the handshake's, in a call whose dial succeeded.
TimerWon(i) == Raced(i) /\ sent[i] # <<>> /\ sent[i][1] = timeoutError

\* C2 as stated: when the timer fires before the handshake has signalled
\* completion, Connect returns a TimeoutError (timeout and temporary markers
\* true, not a HandshakeError or ConnectionError) and no Response.
C2_AsStated ==
    \A i \in Calls :
        TimerWon(i) /\ Returned(i) =>
            /\ result[i].resp = Nil
            /\ IsTimeoutError(result[i].err)
            /\ ~IsHandshakeError(result[i].err)
            /\ ~IsConnectionError(result[i].err)

\* C2, amended: when the dial succeeded and the timer's send is the first on
\* the channel, Connect returns no Response and the error
\* errors.Wrap(timeoutError{}, "could not do tls handshake"): the wrapper of a
\* HandshakeError, whose cause is the timeoutError with both markers true; the
\* returned error itself carries neither marker.
C2_TimeoutIsWrapped ==
    \A i \in Calls :
        TimerWon(i) /\ Returned(i) =>
            /\ result[i].resp = Nil
            /\ IsHandshakeError(result[i].err)
            /\ result[i].err.cause = timeoutError
            /\ IsTimeoutError(result[i].err.cause)
            /\ ~IsTimeout(result[i].err) /\ ~IsTemporary(result[i].err)

\* The timer fired while the handshake task was still running; Connect returned.
C2_Witness ==
    \E i \in Calls :
        /\ TimerWon(i) /\ Returned(i)
        /\ tlsConn[i].hs = "task"
        /\ timer[i] = "fired"

----------------------------------------------------------------------------
(* C3 *)

\* C3: once Connect has returned, the connection it dialed is closed, on every
\* path after a successful dial; only a call whose dial failed, which has no
\* connection, returns without one.
C3_ConnClosedOnReturn ==
    \A i \in Calls :
        Returned(i) =>
            /\ conn[i] # "open"
            /\ conn[i] = "none" <=> IsConnectionError(result[i].err)

\* Two calls have returned after a dial, one with a Response and one without.
C3_Witness ==
    \E i, j \in Calls :
        /\ Returned(i) /\ conn[i] = "closed" /\ result[i].resp # Nil
        /\ Returned(j) /\ conn[j] = "closed" /\ IsHandshakeError(result[j].err)

----------------------------------------------------------------------------
(* C4 *)

\* C4: the handshake of a call runs with the fixed server name when the
\* Client's configuration has one, and otherwise with a configuration whose
\* server name is the host portion of the dialed address.
C4_ServerNameInferred ==
    \A i \in Calls :
        tlsConn[i].hs # "none" =>
            tlsConn[i].config.ServerName =
                IF client.tlsConfig.ServerName # <<>> THEN client.tlsConfig.ServerName
                ELSE hostnameValue(Address(i))

----------------------------------------------------------------------------
(* C5 *)

C5_State ==
    \A i \in Calls :
        /\ client = New(opts).client
        /\ reads[i] = 1 => sent[i] # <<>> /\ err[i] = sent[i][1]
        /\ Returned(i) /\ Dialed(i) =>
              result[i] = Outcome(err[i], args[i].hostname, args[i].port, tlsConn[i].hl)

\* C5: no step of any Connect call, alone or interleaved with another call's,
\* changes the Client (configuration and dial timeout stay what New built), and
\* what a call receives and returns comes from its own channel, timer and
\* handshake.
C5_ClientUnchanged == []C5_State /\ [][client' = client /\ opts' = opts]_vars

\* Two calls on a Client with no fixed server name have both run the
\* server-name inference and returned, one on its timer and one with a Response.
C5_Witness ==
    /\ client.tlsConfig.ServerName = <<>>
    /\ \E i, j \in Calls :
          /\ Returned(i) /\ TimerWon(i) /\ config[i].ServerName # <<>>
          /\ Returned(j) /\ result[j].resp # Nil /\ config[j].ServerName # <<>>
          /\ args[i].hostname # args[j].hostname

----------------------------------------------------------------------------
(* C6 *)

\* C6: with certsOnly set, a call whose handshake error, as the caller got it
\* (from Handshake() directly, or from the channel), is the certs-only sentinel
\* returns no error and a Response whose leaf is the extraction of the
\* handshake log's server certificate.
C6_CertsOnlyIsSuccess ==
    \A i \in Calls :
        Returned(i) /\ Dialed(i) /\ client.tlsConfig.CertsOnly /\ err[i] = ErrCertsOnly =>
            /\ result[i].err = Nil
            /\ result[i].resp # Nil
            /\ result[i].resp.Leaf =
                  convertCertificateToResponse(
                      parseSimpleTLSCertificate(tlsConn[i].hl.ServerCertificates.Certificate))

\* The sentinel was received from the channel and Connect returned a leaf with names.
C6_Witness ==
    \E i \in Calls :
        /\ Returned(i) /\ Raced(i) /\ client.tlsConfig.CertsOnly
        /\ err[i] = ErrCertsOnly /\ reads[i] = 1
        /\ result[i].resp # Nil
        /\ result[i].resp.Leaf.SubjectCommonName = "a.example"

----------------------------------------------------------------------------
(* C7 *)

\* C7: a call whose dial failed returns no Response and the dial's error
\* wrapped as a ConnectionError, and no handshake was begun on its behalf.
C7_DialFailure ==
    \A i \in Calls :
        Returned(i) /\ ~Dialed(i) =>
            /\ result[i].resp = Nil
            /\ IsConnectionError(result[i].err)
            /\ result[i].err.cause \in {ErrRefused, ErrDialTimeout}
            /\ result[i].err.cause = ErrRefused => args[i].net = "refusing"
            /\ args[i].net = "unroutable" => result[i].err.cause = ErrDialTimeout
            /\ tlsConn[i] = NoTLSConn
            /\ config[i] = Nil

\* One dial was refused and another timed out.
C7_Witness ==
    \E i, j \in Calls :
        /\ Returned(i) /\ ~Dialed(i) /\ result[i].err.cause = ErrRefused
        /\ Returned(j) /\ ~Dialed(j) /\ result[j].err.cause = ErrDialTimeout

----------------------------------------------------------------------------
(* C8 *)

\* C8 as stated: a call with a nonzero timeout to an unroutable address
\* returns a TimeoutError, and not before the timeout has elapsed.
C8_AsStated ==
    \A i \in Calls :
        Returned(i) /\ Timeout # 0 /\ args[i].net = "unroutable" =>
            /\ result[i].resp = Nil
            /\ IsTimeoutError(result[i].err)
            /\ now >= t0[i] + Timeout

\* C8, amended: a call with a nonzero timeout to an unroutable address returns
\* no Response and a ConnectionError wrapping the dialer's own timeout error
\* (not the TimeoutError of the race, which is left unread in the channel if
\* the timer fired), and not before the timeout has elapsed.
C8_UnroutableIsConnectionError ==
    \A i \in Calls :
        Returned(i) /\ Timeout # 0 /\ args[i].net = "unroutable" =>
            /\ result[i] = [resp |-> Nil,
                            err  |-> Wrap(ErrDialTimeout, "could not connect to address")]
            /\ ~IsTimeoutError(result[i].err)
            /\ reads[i] = 0
            /\ now >= t0[i] + Timeout

\* The timer fired during the dial, and the dial then timed out.
C8_Witness ==
    \E i \in Calls :
        /\ Returned(i) /\ Timeout # 0 /\ args[i].net = "unroutable"
        /\ errChannel[i] = <<timeoutError>>
        /\ now = t0[i] + Timeout

----------------------------------------------------------------------------
(* C9 *)

\* C9: on a Client whose timeout is 0 no call ever has a timer, a channel or
\* a handshake task, nothing is sent or received, and a call that dialed
\* returns what follows from the error of its own synchronous handshake, never
\* an error that is or wraps the timeoutError.
C9_NoTimeoutIsSynchronous ==
    Timeout = 0 =>
        \A i \in Calls :
            /\ timer[i] = "none"
            /\ errChannel[i] = NoChan
            /\ tlsConn[i].hs # "task"
            /\ sent[i] = <<>> /\ reads[i] = 0
            /\ Returned(i) /\ Dialed(i) =>
                  /\ err[i] \in HandshakeResults(tlsConn[i].config, "open")
                  /\ result[i] = Outcome(err[i], args[i].hostname, args[i].port, tlsConn[i].hl)
            /\ Returned(i) =>
                  /\ result[i].err # timeoutError
                  /\ result[i].err # Nil => result[i].err.cause # timeoutError

\* With timeout 0, one call has returned a Response and another a HandshakeError.
C9_Witness ==
    /\ Timeout = 0
    /\ \E i, j \in Calls :
          /\ Returned(i) /\ result[i].resp # Nil
          /\ Returned(j) /\ IsHandshakeError(result[j].err) /\ err[j] = ErrAlert

----------------------------------------------------------------------------
(* C10 *)

BadToken(t) == t # "" /\ t \notin ValidTokens

\* C10: once New has returned, if minVersion or maxVersion is a non-empty
\* token outside ssl30, tls10, tls11, tls12, the Client is nil and the error
\* names the offending token (minVersion's when both are bad), whatever the
\* other bound is; otherwise the error is nil and a Client is returned.
C10_NewRejectsUnknownTokens ==
    client # Unset =>
        /\ BadToken(opts.MinVersion) =>
              /\ client = Nil
              /\ newErr = Errorf("invalid min version specified: %s", opts.MinVersion)
        /\ ~BadToken(opts.MinVersion) /\ BadToken(opts.MaxVersion) =>
              /\ client = Nil
              /\ newErr = Errorf("invalid max version specified: %s", opts.MaxVersion)
        /\ ~BadToken(opts.MinVersion) /\ ~BadToken(opts.MaxVersion) =>
              /\ client # Nil /\ client.type = "client"
              /\ newErr = Nil

\* New has rejected a bad maxVersion that came with a good minVersion.
C10_Witness ==
    /\ client = Nil
    /\ opts.MinVersion = "tls10" /\ opts.MaxVersion = "bogus"
    /\ newErr.arg = "bogus"

----------------------------------------------------------------------------
(* C11 *)

\* The token the Version Table gives a numeric version, written out.
TokenOf(v) ==
    CASE v = 768 -> "ssl30"
      [] v = 769 -> "tls10"
      [] v = 770 -> "tls11"
      [] v = 771 -> "tls12"
      [] OTHER   -> ""

\* C11: a returned Response's version is the table's token for the ServerHello
\* version of the handshake log, and the empty string when the table has no
\* such version; in both cases the Response comes with a nil error.
C11_VersionToken ==
    \A i \in Calls :
        Returned(i) /\ Dialed(i) /\ err[i] \in {Nil, ErrCertsOnly} =>
            /\ result[i].err = Nil
            /\ result[i].resp # Nil
            /\ result[i].resp.Version = TokenOf(tlsConn[i].hl.ServerHello.Version)

\* One Response has a version outside the table and an empty token, another a token.
C11_Witness ==
    \E i, j \in Calls :
        /\ Returned(i) /\ result[i].resp # Nil /\ result[i].err = Nil
        /\ tlsConn[i].hl.ServerHello.Version = VersionUnknown
        /\ result[i].resp.Version = ""
        /\ Returned(j) /\ result[j].resp # Nil
        /\ tlsConn[j].hl.ServerHello.Version = VersionTLS10
        /\ result[j].resp.Version = "tls10"

----------------------------------------------------------------------------
(* C12 *)

\* The extraction of one raw certificate (4.3 of the spec).
Extract(cert) == convertCertificateToResponse(parseSimpleTLSCertificate(cert))

\* C12: a returned Response's chain is as long as the handshake log's server
\* chain and its k-th record is the extraction of the k-th raw certificate.
C12_ChainInOrder ==
    \A i \in Calls :
        Returned(i) /\ result[i].resp # Nil =>
            LET raw == tlsConn[i].hl.ServerCertificates.Chain
                out == result[i].resp.Chain
            IN  /\ Len(out) = Len(raw)
                /\ \A k \in 1..Len(raw) : out[k] = Extract(raw[k])

\* A two-certificate chain whose first certificate does not decode came back
\* as two records in that order, and another Response has an empty chain.
C12_Witness ==
    \E i, j \in Calls :
        /\ Returned(i) /\ result[i].resp # Nil
        /\ Len(tlsConn[i].hl.ServerCertificates.Chain) = 2
        /\ result[i].resp.Chain[1].SubjectCommonName = ""
        /\ result[i].resp.Chain[2].SubjectCommonName = "CA"
        /\ Returned(j) /\ result[j].resp # Nil
        /\ tlsConn[j].hl.ServerCertificates.Chain = <<>>
        /\ result[j].resp.Chain = <<>>

----------------------------------------------------------------------------
(* C13 *)

\* Every field empty.
EmptyRecord ==
    [DNSNames |-> <<>>, Emails |-> <<>>, IssuerCommonName |-> "",
     IssuerOrganization |-> <<>>, SubjectCommonName |-> "", SubjectOrganization |-> <<>>]

Undecodable(cert) == ParseCertificate(cert.Raw) = Nil

\* C13: when the handshake ended with no error (or the certs-only sentinel),
\* Connect returns a Response and a nil error whether or not the certificates
\* decode, and the record of each certificate that does not decode, leaf or
\* chain, has every field empty.
C13_DecodeFailureAbsorbed ==
    \A i \in Calls :
        Returned(i) /\ Dialed(i) /\ err[i] \in {Nil, ErrCertsOnly} =>
            LET certs == tlsConn[i].hl.ServerCertificates
            IN  /\ result[i].err = Nil
                /\ result[i].resp # Nil
                /\ Undecodable(certs.Certificate) => result[i].resp.Leaf = EmptyRecord
                /\ Len(result[i].resp.Chain) = Len(certs.Chain)
                /\ \A k \in 1..Len(certs.Chain) :
                      Undecodable(certs.Chain[k]) => result[i].resp.Chain[k] = EmptyRecord

\* A handshake whose leaf and first chain certificate do not decode ended in a Response.
C13_Witness ==
    \E i \in Calls :
        /\ Returned(i) /\ result[i].resp # Nil /\ result[i].err = Nil
        /\ Undecodable(tlsConn[i].hl.ServerCertificates.Certificate)
        /\ Undecodable(tlsConn[i].hl.ServerCertificates.Chain[1])
        /\ result[i].resp.Leaf = EmptyRecord

----------------------------------------------------------------------------
(* C14 *)

\* Connect returned the timer's value as its outcome.
TimeoutOutcome(i) ==
    Returned(i) /\ result[i].err # Nil /\ result[i].err.cause = timeoutError

\* C14 as stated: the timer is scheduled when the handshake is started, after
\* the dial has succeeded: while Connect is dialing there is no timer and
\* nothing is in the channel, a call whose dial failed leaves no timer pending,
\* and a timeout outcome follows a dial that succeeded.
C14_AsStated ==
    \A i \in Calls :
        /\ pc[i] = "dialing" => timer[i] = "none" /\ sent[i] = <<>>
        /\ Returned(i) /\ ~Dialed(i) => timer[i] # "pending"
        /\ TimeoutOutcome(i) => Dialed(i)

\* C14, amended: for a nonzero timeout the timer is scheduled on entry to
\* Connect, before the dial, and runs from then: it is armed all through the
\* dial, it fires only once the timeout has elapsed since entry, possibly while
\* Connect is still dialing, and a call whose dial failed may leave it pending
\* or leave its value unread in the channel.  The caller receives only after a
\* successful dial, so a timeout outcome is reached only from the handshake
\* phase.
C14_TimerArmedBeforeDial ==
    \A i \in Calls :
        /\ Timeout # 0 /\ pc[i] # "idle" => timer[i] \in {"pending", "fired"}
        /\ timer[i] = "fired" =>
              /\ now >= t0[i] + Timeout
              /\ \E k \in 1..Len(sent[i]) : sent[i][k] = timeoutError
        /\ ~Dialed(i) => reads[i] = 0
        /\ TimeoutOutcome(i) => Dialed(i) /\ reads[i] = 1 /\ IsHandshakeError(result[i].err)

\* The timer fired while one call was still dialing, and another call's dial
\* failed with its timer still pending.
C14_Witness ==
    \E i, j \in Calls :
        /\ pc[i] = "dialing" /\ timer[i] = "fired" /\ errChannel[i] = <<timeoutError>>
        /\ Returned(j) /\ ~Dialed(j) /\ timer[j] = "pending"

----------------------------------------------------------------------------
(* C15 *)

\* Connect returned on the timer while its handshake task had not yet returned.
TaskOutlivesConnect(i) == Returned(i) /\ TimerWon(i) /\ tlsConn[i].hs = "task"

\* C15 as stated: after Connect has returned on timeout the handshake task
\* keeps running on the connection, which Connect leaves undisturbed.
C15_AsStated ==
    \A i \in Calls : TaskOutlivesConnect(i) => conn[i] = "open"

C15_State ==
    \A i \in Calls :
        /\ TaskOutlivesConnect(i) => conn[i] = "closed"
        /\ Returned(i) /\ TimerWon(i) /\ tlsConn[i].hs = "returned" =>
              /\ Len(sent[i]) = 2
              /\ sent[i][2] \in HandshakeResults(tlsConn[i].config, "closed")
              /\ errChannel[i] = <<sent[i][2]>>
        /\ (\E k \in 1..Len(sent[i]) : sent[i][k] = ErrClosed) => Returned(i) /\ TimerWon(i)

C15_Step ==
    \A i \in Calls :
        TaskOutlivesConnect(i) =>
            \/ tlsConn'[i] = tlsConn[i] /\ sent'[i] = sent[i]
            \/ /\ tlsConn'[i].hs = "returned"
               /\ Len(sent'[i]) = 2
               /\ result'[i] = result[i]

\* C15, amended: a timeout does not cancel the handshake task, and Connect
\* stops waiting for it: the task stays until the handshake engine returns and
\* then sends its error, which nobody receives.  But Connect's deferred
\* conn.Close() closes the connection the task is handshaking on, so from
\* Connect's return the task runs on a closed connection and the engine may
\* return the closed-connection error.
C15_TaskRunsOnClosedConn == []C15_State /\ [][C15_Step]_vars

\* After a timeout return, the task's handshake failed on the closed connection.
C15_Witness ==
    \E i \in Calls :
        /\ Returned(i) /\ TimerWon(i)
        /\ conn[i] = "closed"
        /\ sent[i] = <<timeoutError, ErrClosed>>

----------------------------------------------------------------------------
(* C16 *)

\* How many of the values sent on call i's channel satisfy P.
Timeouts(i) == Cardinality({k \in 1..Len(sent[i]) : sent[i][k] = timeoutError})
Handshakes(i) == Cardinality({k \in 1..Len(sent[i]) : sent[i][k] # timeoutError})

\* C16: a call has at most one timer send and one handshake send, its channel
\* never holds more than two values, and whenever its timer or its handshake
\* task has yet to send there is room in the channel, so the send does not
\* block: also after Connect has returned, and after a failed dial, where the
\* timer's value is never received.
C16_SendsNeverBlock ==
    \A i \in Calls :
        /\ Timeouts(i) <= 1 /\ Handshakes(i) <= 1
        /\ Len(sent[i]) <= 2
        /\ errChannel[i] # NoChan => Len(errChannel[i]) <= 2
        /\ timer[i] = "pending" => errChannel[i] # NoChan /\ Len(errChannel[i]) < ChanCap
        /\ tlsConn[i].hs = "task" => errChannel[i] # NoChan /\ Len(errChannel[i]) < ChanCap
        /\ timer[i] = "fired" => Timeouts(i) = 1
        /\ tlsConn[i].hs = "returned" /\ Timeout # 0 => Handshakes(i) = 1

\* One call's dial failed and its timer then fired into the channel nobody
\* reads; in another, both the timer and the task have sent.
C16_Witness ==
    \E i, j \in Calls :
        /\ Returned(i) /\ ~Dialed(i) /\ timer[i] = "fired" /\ errChannel[i] = <<timeoutError>>
        /\ now > t0[i] + Timeout
        /\ Returned(j) /\ Len(sent[j]) = 2 /\ Len(errChannel[j]) = 1

----------------------------------------------------------------------------
(* C17 *)

\* The handshake outcome the caller observed counts as success.
ObservedSuccess(i) == Dialed(i) /\ err[i] \in {Nil, ErrCertsOnly}

\* C17: a call that has returned has exactly one of Response and error, after
\* at most one receive; it has a Response exactly when its dial succeeded and
\* the handshake outcome it observed is nil or the certs-only sentinel; any
\* other observed outcome gives no Response and that outcome wrapped as a
\* HandshakeError; a Response carries the call's hostname and port and the
\* label "ztls".
C17_OneOutcome ==
    \A i \in Calls :
        Returned(i) =>
            /\ (result[i].resp # Nil) # (result[i].err # Nil)
            /\ reads[i] <= 1
            /\ result[i].resp # Nil <=> ObservedSuccess(i)
            /\ Dialed(i) /\ ~ObservedSuccess(i) =>
                  /\ IsHandshakeError(result[i].err)
                  /\ result[i].err.cause = err[i]
            /\ ~Dialed(i) => IsConnectionError(result[i].err)
            /\ result[i].resp # Nil =>
                  /\ result[i].resp.Host = args[i].hostname
                  /\ result[i].resp.Port = args[i].port
                  /\ result[i].resp.TLSConnection = "ztls"

\* An IPv6 hostname came back unbracketed in a Response, and another call
\* returned a HandshakeError wrapping the engine's error.
C17_Witness ==
    \E i, j \in Calls :
        /\ Returned(i) /\ result[i].resp # Nil
        /\ result[i].resp.Host = <<":", ":", "1">>
        /\ Returned(j) /\ result[j].resp = Nil /\ result[j].err.cause = ErrAlert

----------------------------------------------------------------------------
(* C18 *)

\* The numeric version of a bound's token, with the default for the empty token.
BoundOf(token, default) ==
    CASE token = ""      -> default
      [] token = "ssl30" -> 768
      [] token = "tls10" -> 769
      [] token = "tls11" -> 770
      [] token = "tls12" -> 771

\* C18: when New has returned a Client, its configuration has the min and max
\* versions of the two tokens (ssl30 and tls12 for empty tokens), each set from
\* its own token, verification on exactly when verifyServerCertificate is set,
\* the certs-only flag, the server name and the timeout (in seconds) of the
\* Options; and New returns a Client for valid tokens also when min > max.
C18_ConfigFromOptions ==
    /\ client # Unset /\ client # Nil =>
          /\ client.tlsConfig.MinVersion = BoundOf(opts.MinVersion, 768)
          /\ client.tlsConfig.MaxVersion = BoundOf(opts.MaxVersion, 771)
          /\ ~client.tlsConfig.InsecureSkipVerify <=> opts.VerifyServerCertificate
          /\ client.tlsConfig.CertsOnly = opts.CertsOnly
          /\ client.tlsConfig.ServerName = opts.ServerName
          /\ client.dialer.Timeout = opts.Timeout
    /\ client # Unset /\ ~BadToken(opts.MinVersion) /\ ~BadToken(opts.MaxVersion) =>
          client # Nil

\* New returned a verifying Client whose min version is above its max version.
C18_Witness ==
    /\ client # Unset /\ client # Nil
    /\ opts.MinVersion = "tls12" /\ opts.MaxVersion = "ssl30"
    /\ client.tlsConfig.MinVersion > client.tlsConfig.MaxVersion
    /\ opts.VerifyServerCertificate /\ opts.ServerName # <<>> /\ opts.Timeout > 0

----------------------------------------------------------------------------
(* C19 *)

\* C19: the two tables hold exactly the tokens ssl30, tls10, tls11, tls12 and
\* are inverses of each other; through New, the token of a Client's min (max)
\* version is the minVersion (maxVersion) token it was built from.
C19_TablesAreInverses ==
    /\ DOMAIN versionStringToTLSVersion = ValidTokens
    /\ {versionToTLSVersionString[v] : v \in DOMAIN versionToTLSVersionString} = ValidTokens
    /\ {versionStringToTLSVersion[t] : t \in ValidTokens} = DOMAIN versionToTLSVersionString
    /\ \A t \in DOMAIN versionStringToTLSVersion :
          versionToTLSVersionString[versionStringToTLSVersion[t]] = t
    /\ \A v \in DOMAIN versionToTLSVersionString :
          versionStringToTLSVersion[versionToTLSVersionString[v]] = v
    /\ client # Unset /\ client # Nil =>
          /\ opts.MinVersion # "" => VersionString(client.tlsConfig.MinVersion) = opts.MinVersion
          /\ opts.MaxVersion # "" => VersionString(client.tlsConfig.MaxVersion) = opts.MaxVersion

\* New built a Client from two different tokens, both of which read back.
C19_Witness ==
    /\ client # Unset /\ client # Nil
    /\ opts.MinVersion = "tls11" /\ opts.MaxVersion = "tls12"
    /\ VersionString(client.tlsConfig.MinVersion) = "tls11"
    /\ VersionString(client.tlsConfig.MaxVersion) = "tls12"

====
